---------------------------- MODULE Spec2Model ----------------------------
(***************************************************************************)
(* A model of the three event-driven handlers of hold-that-thought:        *)
(*   - the activity aggregator   (backend/activity-aggregator/index.py),   *)
(*   - the notification processor (backend/notification-processor/index.py)*)
(*   - the Amplify deployer      (backend/lambdas/amplify-deployer/index.py)*)
(* Python dicts are functions whose DOMAIN is the set of keys present;     *)
(* Python strings that the code searches or splits are sequences of        *)
(* one-character strings.                                                  *)
(***************************************************************************)
EXTENDS Integers, Sequences, FiniteSets, TLC

VARIABLES
    profiles,    \* the UserProfiles table: userId -> [commentCount, lastActive]
    now,         \* the wall clock read by datetime.utcnow()
    pc,          \* activity aggregator: "idle" | "running" | "done"
    records,     \* activity aggregator: event['Records'] of the invocation
    idx,         \* activity aggregator: position of the for loop (1-based)
    calls,       \* activity aggregator: update_item calls issued by the invocation
    errors,      \* activity aggregator: records whose exception the handler caught
    response,    \* activity aggregator: the value lambda_handler returned
    pre,         \* the table as it was when the invocation started
    npc,         \* notification processor: "idle" | "running" | "done"
    nrecords,    \* notification processor: event['Records'] of the invocation
    nidx,        \* notification processor: position of the for loop (1-based)
    nlog,        \* notification processor: branches entered and lines printed
    nerrors,     \* notification processor: records whose exception was caught
    nresponse,   \* notification processor: the value lambda_handler returned
    sesCalls,    \* ses.send_email calls issued
    dpc,         \* deployer: where create_or_update / the poll loop stands
    props,       \* deployer: event['ResourceProperties'] of the request
    zip_data,    \* deployer: the bytes read from S3
    deployment,  \* deployer: the response of amplify.create_deployment
    jobs,        \* Amplify: jobId -> the job, for the jobs that exist
    uploads,     \* Amplify: presigned URL -> the bytes PUT to it
    helperData,  \* crhelper: helper.Data, carried to the polls as CrHelperData
    apiLog,      \* deployer: the AWS / HTTP calls issued, in order
    pollResult,  \* deployer: what the last poll returned or raised
    polls,       \* deployer: number of poll invocations so far
    invocations, \* concurrent aggregator invocations: name -> [pc, records, idx, op, stamp]
    overlapped,  \* two aggregator invocations have been running at the same time
    storeFailed  \* an update_item call of a concurrent invocation has failed

(***************************************************************************)
(* Bounds of the model.                                                    *)
(***************************************************************************)
MaxBatch == 2
MaxClock == 1

(***************************************************************************)
(* Strings as sequences of characters.                                     *)
(***************************************************************************)
UpperAlphabet ==
    <<"A","B","C","D","E","F","G","H","I","J","K","L","M","N","O","P","Q","R","S","T","U","V","W","X","Y","Z">>

LowerAlphabet ==
    <<"a","b","c","d","e","f","g","h","i","j","k","l","m","n","o","p","q","r","s","t","u","v","w","x","y","z">>

\* str.lower(), one character
LowerChar(c) ==
    IF \E i \in 1..Len(UpperAlphabet) : UpperAlphabet[i] = c
    THEN LowerAlphabet[CHOOSE i \in 1..Len(UpperAlphabet) : UpperAlphabet[i] = c]
    ELSE c

\* str.lower()
Lower(s) == [i \in 1..Len(s) |-> LowerChar(s[i])]

\* needle occurs in hay at position i
OccursAt(hay, needle, i) ==
    /\ i >= 1
    /\ i + Len(needle) - 1 <= Len(hay)
    /\ SubSeq(hay, i, i + Len(needle) - 1) = needle

\* `needle in hay`
Contains(hay, needle) == \E i \in 1..(Len(hay) + 1) : OccursAt(hay, needle, i)

\* str.split(sep) for a non-empty separator
RECURSIVE Split(_, _)
Split(s, sep) ==
    IF \E i \in 1..Len(s) : OccursAt(s, sep, i)
    THEN LET i == CHOOSE j \in 1..Len(s) :
                    /\ OccursAt(s, sep, j)
                    /\ \A k \in 1..(j - 1) : ~OccursAt(s, sep, k)
         IN <<SubSeq(s, 1, i - 1)>> \o Split(SubSeq(s, i + Len(sep), Len(s)), sep)
    ELSE <<s>>

StrComment == <<"c","o","m","m","e","n","t">>
StrReaction == <<"r","e","a","c","t","i","o","n">>
StrMessage == <<"m","e","s","s","a","g","e">>
StrTableSep == <<":","t","a","b","l","e","/">>
StrSlash == <<"/">>

Has(d, k) == k \in DOMAIN d

(***************************************************************************)
(* Inputs: the stream records the platform can deliver.                    *)
(***************************************************************************)
Users == {"u1", "u2"}

TblComments == <<"h","t","-","c","o","m","m","e","n","t","s">>
TblCommentReactions ==
    <<"h","t","-","c","o","m","m","e","n","t","-","r","e","a","c","t","i","o","n","s">>
TblMessages == <<"H","T","-","M","e","s","s","a","g","e","s">>
TblReactions == <<"h","t","-","r","e","a","c","t","i","o","n","s">>
TblLetters == <<"h","t","-","l","e","t","t","e","r","s">>

TableNames == {TblComments, TblCommentReactions, TblMessages, TblReactions, TblLetters}

\* arn:aws:dynamodb:table/<name>/stream/1
StreamArn(name) ==
    <<"a","r","n",":","a","w","s",":","d","y","n","a","m","o","d","b",":","t","a","b","l","e","/">>
        \o name \o <<"/","s","t","r","e","a","m","/","1">>

\* an ARN that does not hold ':table/'
BadArn ==
    <<"a","r","n",":","a","w","s",":","d","y","n","a","m","o","d","b",":","s","t","r","e","a","m","/","1">>

\* NewImage maps of the activity aggregator's inputs
ActivityImages ==
    { [userId |-> [S |-> "u1"]],
      [userId |-> [S |-> "u2"], senderId |-> [S |-> "u1"]],
      [senderId |-> [S |-> ""]],
      [commentText |-> [S |-> "hi"]] }

StreamRecord(name, arn, img) ==
    [eventName |-> name, eventSourceARN |-> arn, dynamodb |-> [NewImage |-> img]]

ActivityRecords ==
    { StreamRecord("INSERT", StreamArn(t), img) : t \in TableNames, img \in ActivityImages }
    \cup { StreamRecord("INSERT", BadArn, [userId |-> [S |-> "u1"]]),
           StreamRecord("MODIFY", StreamArn(TblComments), [userId |-> [S |-> "u1"]]),
           [eventName |-> "REMOVE", eventSourceARN |-> StreamArn(TblComments),
            dynamodb |-> [Keys |-> [userId |-> [S |-> "u1"]]]],
           [eventSourceARN |-> StreamArn(TblComments),
            dynamodb |-> [NewImage |-> [userId |-> [S |-> "u1"]]]] }

RECURSIVE SeqsUpTo(_, _)
SeqsUpTo(S, n) ==
    IF n = 0 THEN {<<>>}
    ELSE LET shorter == SeqsUpTo(S, n - 1)
         IN shorter \cup { Append(s, x) : s \in { q \in shorter : Len(q) = n - 1 }, x \in S }

ActivityBatches == SeqsUpTo(ActivityRecords, MaxBatch)

\* the commentCount each user starts with (an absent attribute counts as 0)
InitialCount == [u \in Users |-> IF u = "u1" THEN 0 ELSE 5]

(***************************************************************************)
(* Activity aggregator.                                                    *)
(***************************************************************************)
NoTime == <<>>

\* faulty variant: the stamp is built from a field that wraps around (as the
\* hour of a 12-hour clock does), so a later time can give a smaller stamp
UtcNowIsoZ_wraps(t) == <<"T", (t + 1) % 2>> \o <<"Z">>

\* datetime.utcnow().isoformat() + 'Z'
UtcNowIsoZ(t) == <<"T", t>> \o <<"Z">>

\* faulty variant: ':inc' is -1
increment_comment_count_decrement(p, user_id, ok) ==
    IF ok THEN [p EXCEPT ![user_id].commentCount = @ - 1] ELSE p

\* faulty variant: the counter is overwritten (SET commentCount = 1) instead of accumulated
increment_comment_count_overwrite(p, user_id, ok) ==
    IF ok THEN [p EXCEPT ![user_id].commentCount = 1] ELSE p

\* table.update_item(... 'ADD commentCount :inc' ...), errors swallowed
increment_comment_count(p, user_id, ok) ==
    IF ok THEN [p EXCEPT ![user_id].commentCount = @ + 1] ELSE p

\* table.update_item(... 'SET lastActive = :now' ...), errors swallowed
update_last_active(p, user_id, ok, t) ==
    IF ok THEN [p EXCEPT ![user_id].lastActive = UtcNowIsoZ(t)] ELSE p

\* record['eventSourceARN'].split(':table/')[1].split('/')[0]; <<>> stands for
\* the IndexError/KeyError
TableNameOf(record) ==
    IF ~Has(record, "eventSourceARN") THEN [raised |-> TRUE, name |-> <<>>]
    ELSE LET parts == Split(record.eventSourceARN, StrTableSep)
         IN IF Len(parts) < 2 THEN [raised |-> TRUE, name |-> <<>>]
            ELSE [raised |-> FALSE, name |-> Split(parts[2], StrSlash)[1]]

\* faulty variant: the chain stops after the message test
activity_branch_no_reaction(table_name) ==
    IF Contains(Lower(table_name), StrComment) /\ ~Contains(Lower(table_name), StrReaction)
    THEN "comment"
    ELSE IF Contains(Lower(table_name), StrMessage) THEN "message"
    ELSE "none"

\* faulty variant: the last test is a bare `else`
activity_branch_else_reaction(table_name) ==
    IF Contains(Lower(table_name), StrComment) /\ ~Contains(Lower(table_name), StrReaction)
    THEN "comment"
    ELSE IF Contains(Lower(table_name), StrMessage) THEN "message"
    ELSE "reaction"

\* faulty variant: the comment test without its reaction exclusion
activity_branch_no_exclusion(table_name) ==
    IF Contains(Lower(table_name), StrComment) THEN "comment"
    ELSE IF Contains(Lower(table_name), StrMessage) THEN "message"
    ELSE IF Contains(Lower(table_name), StrReaction) THEN "reaction"
    ELSE "none"

\* the if/elif chain of the aggregator's process_insert_event
activity_branch(table_name) ==
    IF Contains(Lower(table_name), StrComment) /\ ~Contains(Lower(table_name), StrReaction)
    THEN "comment"
    ELSE IF Contains(Lower(table_name), StrMessage) THEN "message"
    ELSE IF Contains(Lower(table_name), StrReaction) THEN "reaction"
    ELSE "none"

Raised == [raised |-> TRUE, ops |-> <<>>]
Issue(ops) == [raised |-> FALSE, ops |-> ops]

\* new_image['userId']['S']
RequiredS(img, k) == Has(img, k) /\ Has(img[k], "S")

\* faulty variant: the message branch reads userId where it should read senderId
OptionalS_wrong_key(img, k) ==
    IF Has(img, "userId") /\ Has(img.userId, "S") THEN img.userId.S ELSE ""

\* new_image.get('senderId', {}).get('S'); "" stands for None as well (both falsy)
OptionalS(img, k) == IF Has(img, k) /\ Has(img[k], "S") THEN img[k].S ELSE ""

\* process_insert_event: the store calls it issues, in order, or the exception
process_insert_event(record) ==
    LET tn == TableNameOf(record) IN
    IF tn.raised THEN Raised
    ELSE IF ~(Has(record, "dynamodb") /\ Has(record.dynamodb, "NewImage")) THEN Raised
    ELSE LET new_image == record.dynamodb.NewImage
             branch == activity_branch(tn.name)
         IN CASE branch = "comment" ->
                   IF RequiredS(new_image, "userId")
                   THEN Issue(<<[op |-> "ADD", key |-> new_image.userId.S],
                                [op |-> "SET", key |-> new_image.userId.S]>>)
                   ELSE Raised
              [] branch = "message" ->
                   IF OptionalS(new_image, "senderId") # ""
                   THEN Issue(<<[op |-> "SET", key |-> OptionalS(new_image, "senderId")]>>)
                   ELSE Issue(<<>>)
              [] branch = "reaction" ->
                   IF RequiredS(new_image, "userId")
                   THEN Issue(<<[op |-> "SET", key |-> new_image.userId.S]>>)
                   ELSE Raised
              [] OTHER -> Issue(<<>>)

\* faulty variant: the eventName test is dropped, every record is processed as an INSERT
HandleRecord_any_event(record) == process_insert_event(record)

\* the body of the handler's try block for one record
HandleRecord(record) ==
    IF ~Has(record, "eventName") THEN Raised
    ELSE IF record.eventName = "INSERT" THEN process_insert_event(record)
    ELSE Issue(<<>>)

\* the table after the calls `ops`, call i succeeding iff oks[i]
RECURSIVE ApplyOps(_, _, _, _)
ApplyOps(p, ops, oks, t) ==
    IF ops = <<>> THEN p
    ELSE LET q == IF Head(ops).op = "ADD"
                  THEN increment_comment_count(p, Head(ops).key, Head(oks))
                  ELSE update_last_active(p, Head(ops).key, Head(oks), t)
         IN ApplyOps(q, Tail(ops), Tail(oks), t)

\* HandleRecord and TableNameOf tabulated over the inputs
HandleMemo == [r \in ActivityRecords |-> HandleRecord(r)]
TableMemo == [r \in ActivityRecords |-> TableNameOf(r)]

\* faulty variant: an exception ends the loop instead of being passed over
AfterRecord_abort(out, i, n) == IF out.raised THEN n + 1 ELSE i + 1

\* the handler's `except Exception` swallows the error: the loop goes on
AfterRecord(out, i, n) == i + 1

Ack == [statusCode |-> 200, body |-> "Activity stats updated"]
NoResponse == [statusCode |-> 0, body |-> ""]

activityVars == <<profiles, now, pc, records, idx, calls, errors, response, pre>>
notifyVars == <<npc, nrecords, nidx, nlog, nerrors, nresponse, sesCalls>>
deployVars == <<dpc, props, zip_data, deployment, jobs, uploads, helperData, apiLog,
                pollResult, polls>>
concVars == <<invocations, overlapped, storeFailed>>
vars == <<activityVars, notifyVars, deployVars, concVars>>

InitStore ==
    /\ profiles = [u \in Users |-> [commentCount |-> InitialCount[u], lastActive |-> NoTime]]
    /\ now = 0

InitNotifyIdle ==
    /\ npc = "idle"
    /\ nrecords = <<>>
    /\ nidx = 1
    /\ nlog = <<>>
    /\ nerrors = {}
    /\ nresponse = NoResponse
    /\ sesCalls = <<>>

NoData == [k \in {} |-> ""]

InitDeployIdle ==
    /\ dpc = "idle"
    /\ props = NoData
    /\ zip_data = ""
    /\ deployment = NoData
    /\ jobs = NoData
    /\ uploads = NoData
    /\ helperData = NoData
    /\ apiLog = <<>>
    /\ pollResult = [kind |-> "none", value |-> "", message |-> <<>>]
    /\ polls = 0

Workers == {"w1", "w2"}

NoStamp == -1

\* an invocation the platform has not started
NotStarted == [pc |-> "idle", records |-> <<>>, idx |-> 1, op |-> 1, stamp |-> NoStamp]

InitConcIdle ==
    /\ invocations = [w \in Workers |-> NotStarted]
    /\ overlapped = FALSE
    /\ storeFailed = FALSE

InitActivity ==
    /\ InitStore
    /\ InitNotifyIdle
    /\ InitDeployIdle
    /\ InitConcIdle
    /\ pc = "idle"
    /\ records = <<>>
    /\ idx = 1
    /\ calls = <<>>
    /\ errors = {}
    /\ response = NoResponse
    /\ pre = profiles

\* the platform invokes lambda_handler with a batch
Invoke ==
    /\ pc = "idle"
    /\ \E batch \in ActivityBatches : records' = batch
    /\ pc' = "running"
    /\ idx' = 1
    /\ calls' = <<>>
    /\ errors' = {}
    /\ pre' = profiles
    /\ UNCHANGED <<profiles, now, response, notifyVars, deployVars, concVars>>

\* one iteration of `for record in event['Records']`
ProcessRecord ==
    /\ pc = "running"
    /\ idx <= Len(records)
    /\ LET out == HandleMemo[records[idx]] IN
       \E oks \in [1..Len(out.ops) -> BOOLEAN] :
          /\ profiles' = ApplyOps(profiles, out.ops, oks, now)
          /\ calls' = calls \o [i \in 1..Len(out.ops) |->
                                  [rec |-> idx, op |-> out.ops[i].op,
                                   key |-> out.ops[i].key, ok |-> oks[i], at |-> now]]
          /\ errors' = IF out.raised THEN errors \cup {idx} ELSE errors
          /\ idx' = AfterRecord(out, idx, Len(records))
    /\ UNCHANGED <<now, pc, records, response, pre, notifyVars, deployVars, concVars>>

\* return {'statusCode': 200, 'body': 'Activity stats updated'}
Return ==
    /\ pc = "running"
    /\ idx > Len(records)
    /\ response' = Ack
    /\ pc' = "done"
    /\ UNCHANGED <<profiles, now, records, idx, calls, errors, pre, notifyVars, deployVars, concVars>>

\* time passes
Tick ==
    /\ now < MaxClock
    /\ now' = now + 1
    /\ UNCHANGED <<profiles, pc, records, idx, calls, errors, response, pre, notifyVars, deployVars, concVars>>

NextActivity == Invoke \/ ProcessRecord \/ Return \/ Tick

SpecActivity == InitActivity /\ [][NextActivity]_vars

(***************************************************************************)
(* Notification processor.                                                 *)
(***************************************************************************)
SnippetLen == 50

SES_FROM_EMAIL == "noreply@holdthatthought.family"

TextShort == <<"H","e","l","l","o","!">>
TextLong == [i \in 1..(SnippetLen + 1) |-> "x"]

\* NewImage maps of the notification processor's inputs
NotifyImages ==
    { [itemId |-> [S |-> "item"], commentId |-> [S |-> "c1"], userId |-> [S |-> "u1"],
       userName |-> [S |-> "John"], commentText |-> [S |-> TextLong],
       itemTitle |-> [S |-> "Christmas"]],
      [itemId |-> [S |-> "item"], commentId |-> [S |-> "c1"], userId |-> [S |-> "u2"],
       commentText |-> [S |-> TextShort]],
      [commentId |-> [S |-> "c1"], userId |-> [S |-> "u2"], reactionType |-> [S |-> "like"]],
      [conversationId |-> [S |-> "u1#u2"], senderId |-> [S |-> "u1"],
       messageText |-> [S |-> TextShort]],
      [itemId |-> [S |-> "item"]] }

NotifyRecords ==
    { StreamRecord("INSERT", StreamArn(t), img) : t \in TableNames, img \in NotifyImages }
    \cup { StreamRecord("INSERT", BadArn, [itemId |-> [S |-> "item"]]),
           StreamRecord("MODIFY", StreamArn(TblComments), [itemId |-> [S |-> "item"]]),
           [eventName |-> "REMOVE", eventSourceARN |-> StreamArn(TblComments),
            dynamodb |-> [Keys |-> [itemId |-> [S |-> "item"]]]],
           [eventSourceARN |-> StreamArn(TblComments),
            dynamodb |-> [NewImage |-> [itemId |-> [S |-> "item"]]]] }

NotifyBatches == SeqsUpTo(NotifyRecords, MaxBatch)

\* text[:50]
Snippet(text) == SubSeq(text, 1, IF Len(text) < SnippetLen THEN Len(text) ELSE SnippetLen)

\* new_image.get(k, {}).get('S', default)
DefaultS(img, k, default) == IF Has(img, k) /\ Has(img[k], "S") THEN img[k].S ELSE default

\* ses.send_email(Source=..., Destination=..., Message=...)
send_email(to_email, subject, body_html) ==
    [Source |-> SES_FROM_EMAIL, ToAddresses |-> <<to_email>>,
     Subject |-> subject, Html |-> body_html]

\* should_send_notification: the debounce check is a stub
should_send_notification(user_id, event_type) == TRUE

NRaised(branch) == [raised |-> TRUE, branch |-> branch, lines |-> <<>>, emails |-> <<>>]
NPrinted(branch, line) ==
    [raised |-> FALSE, branch |-> branch, lines |-> <<line>>, emails |-> <<>>]
NSkipped == [raised |-> FALSE, branch |-> "none", lines |-> <<>>, emails |-> <<>>]

process_comment_notification(new_image) ==
    IF /\ RequiredS(new_image, "itemId")
       /\ RequiredS(new_image, "commentId")
       /\ RequiredS(new_image, "userId")
       /\ RequiredS(new_image, "commentText")
    THEN NPrinted("comment",
                  [kind |-> "New comment",
                   by |-> DefaultS(new_image, "userName", "Someone"),
                   on |-> DefaultS(new_image, "itemTitle", "a letter"),
                   text |-> Snippet(new_image.commentText.S)])
    ELSE NRaised("comment")

\* faulty variant: the commented-out send_email line of the reaction branch is live
process_reaction_notification_sends(new_image) ==
    IF RequiredS(new_image, "commentId") /\ RequiredS(new_image, "userId")
    THEN [raised |-> FALSE, branch |-> "reaction",
          lines |-> <<[kind |-> "New reaction", by |-> new_image.userId.S,
                       on |-> new_image.commentId.S]>>,
          emails |-> IF should_send_notification(new_image.userId.S, "reaction")
                     THEN <<send_email("author@example.com", "New reaction", "body")>>
                     ELSE <<>>]
    ELSE NRaised("reaction")

process_reaction_notification(new_image) ==
    IF RequiredS(new_image, "commentId") /\ RequiredS(new_image, "userId")
    THEN NPrinted("reaction",
                  [kind |-> "New reaction", by |-> new_image.userId.S,
                   on |-> new_image.commentId.S])
    ELSE NRaised("reaction")

process_message_notification(new_image) ==
    IF /\ RequiredS(new_image, "conversationId")
       /\ RequiredS(new_image, "senderId")
       /\ RequiredS(new_image, "messageText")
    THEN NPrinted("message",
                  [kind |-> "New message",
                   by |-> DefaultS(new_image, "senderName", "Someone"),
                   text |-> Snippet(new_image.messageText.S)])
    ELSE NRaised("message")

\* the if/elif chain of the processor's process_insert_event
notification_branch(table_name) ==
    IF Contains(Lower(table_name), StrComment) THEN "comment"
    ELSE IF Contains(Lower(table_name), StrReaction) THEN "reaction"
    ELSE IF Contains(Lower(table_name), StrMessage) THEN "message"
    ELSE "none"

\* the processor's process_insert_event
notify_insert_event(record) ==
    LET tn == TableNameOf(record) IN
    IF tn.raised THEN NRaised("none")
    ELSE IF ~(Has(record, "dynamodb") /\ Has(record.dynamodb, "NewImage")) THEN NRaised("none")
    ELSE LET new_image == record.dynamodb.NewImage
             branch == notification_branch(tn.name)
         IN CASE branch = "comment" -> process_comment_notification(new_image)
              [] branch = "reaction" -> process_reaction_notification(new_image)
              [] branch = "message" -> process_message_notification(new_image)
              [] OTHER -> NSkipped

\* the body of the processor's try block for one record
NotifyHandleRecord(record) ==
    IF ~Has(record, "eventName") THEN NRaised("none")
    ELSE IF record.eventName = "INSERT" THEN notify_insert_event(record)
    ELSE NSkipped

NotifyMemo == [r \in NotifyRecords |-> NotifyHandleRecord(r)]
NotifyTableMemo == [r \in NotifyRecords |-> TableNameOf(r)]

NotifyAck == [statusCode |-> 200, body |-> "Notifications processed"]

InitNotify ==
    /\ InitStore
    /\ pc = "idle"
    /\ records = <<>>
    /\ idx = 1
    /\ calls = <<>>
    /\ errors = {}
    /\ response = NoResponse
    /\ pre = profiles
    /\ InitNotifyIdle
    /\ InitDeployIdle
    /\ InitConcIdle

\* the platform invokes the processor's lambda_handler with a batch
NotifyInvoke ==
    /\ npc = "idle"
    /\ \E batch \in NotifyBatches : nrecords' = batch
    /\ npc' = "running"
    /\ nidx' = 1
    /\ UNCHANGED <<nlog, nerrors, nresponse, sesCalls, activityVars, deployVars, concVars>>

\* one iteration of the processor's `for record in event['Records']`
NotifyProcessRecord ==
    /\ npc = "running"
    /\ nidx <= Len(nrecords)
    /\ LET out == NotifyMemo[nrecords[nidx]] IN
          /\ nlog' = Append(nlog, [rec |-> nidx, branch |-> out.branch,
                                   raised |-> out.raised, lines |-> out.lines])
          /\ sesCalls' = sesCalls \o out.emails
          /\ nerrors' = IF out.raised THEN nerrors \cup {nidx} ELSE nerrors
          /\ nidx' = AfterRecord(out, nidx, Len(nrecords))
    /\ UNCHANGED <<npc, nrecords, nresponse, activityVars, deployVars, concVars>>

\* return {'statusCode': 200, 'body': 'Notifications processed'}
NotifyReturn ==
    /\ npc = "running"
    /\ nidx > Len(nrecords)
    /\ nresponse' = NotifyAck
    /\ npc' = "done"
    /\ UNCHANGED <<nrecords, nidx, nlog, nerrors, sesCalls, activityVars, deployVars, concVars>>

NextNotify == NotifyInvoke \/ NotifyProcessRecord \/ NotifyReturn

SpecNotify == InitNotify /\ [][NextNotify]_vars

(***************************************************************************)
(* The two stream handlers side by side: the platform invokes one or the   *)
(* other function with a batch.                                            *)
(***************************************************************************)
InitStreams == InitActivity

NextStreams ==
    \/ (npc = "idle" /\ NextActivity)
    \/ (pc = "idle" /\ NextNotify)

SpecStreams == InitStreams /\ [][NextStreams]_vars

(***************************************************************************)
(* Amplify deployer.                                                       *)
(***************************************************************************)
MaxPolls == 3

JobIds == {"j1", "j2"}

\* the objects of the source bucket
S3Objects == [k \in {"a.zip", "b.zip"} |-> IF k = "a.zip" THEN "bytesA" ELSE "bytesB"]

\* event['ResourceProperties'] of the create/update requests
DeployRequests ==
    { [AppId |-> a, BranchName |-> b, SourceBucket |-> "bucket", SourceKey |-> k] :
        a \in {"app1", "app2"}, b \in {"main", "dev"}, k \in DOMAIN S3Objects }
    \cup { [AppId |-> "app1", BranchName |-> "main", SourceBucket |-> "bucket"] }

\* the presigned URL Amplify hands out for a job
UploadUrl(j) == <<"https://upload/", j>>

\* the moves of a started job inside the service
JobMoves(status) ==
    CASE status = "PENDING" -> {"PROVISIONING", "CANCELLING"}
      [] status = "PROVISIONING" -> {"RUNNING", "CANCELLING"}
      [] status = "RUNNING" -> {"SUCCEED", "FAILED", "CANCELLING"}
      [] status = "CANCELLING" -> {"CANCELLED"}
      [] OTHER -> {}

ApiCall(api, args, ok) == [api |-> api, args |-> args, ok |-> ok]

\* faulty variant: the job is started before the artifact is uploaded
NextStep_start_before_upload(step) ==
    CASE step = "get_object" -> "create_deployment"
      [] step = "create_deployment" -> "start_deployment"
      [] step = "start_deployment" -> "put"
      [] step = "put" -> "emit"

\* the order of the statements of create_or_update
NextStep(step) ==
    CASE step = "get_object" -> "create_deployment"
      [] step = "create_deployment" -> "put"
      [] step = "put" -> "start_deployment"
      [] step = "start_deployment" -> "emit"

\* faulty variant: the upload sits in a try/except that passes over its error
AfterCall_upload_swallowed(step, ok) ==
    IF ok \/ step = "put" THEN NextStep(step) ELSE "raised"

\* no statement of create_or_update is in a try: a failed call raises out of
\* the function, a successful one is followed by the next statement
AfterCall(step, ok) == IF ok THEN NextStep(step) ELSE "raised"

\* helper.Data["JobId"] = job_id; helper.Data["AppId"] = app_id; ...
helper_data(job_id, app_id, branch_name) ==
    [JobId |-> job_id, AppId |-> app_id, BranchName |-> branch_name]

Returned(v) == [kind |-> "return", value |-> v, message |-> <<>>]
RaisedError(type, message) == [kind |-> "raise", value |-> type, message |-> message]

\* faulty variant: the final `else` returns None where it should raise
poll_outcome_else_continue(status) ==
    IF status = "SUCCEED" THEN Returned("True")
    ELSE IF status \in {"PENDING", "PROVISIONING", "RUNNING"} THEN Returned("None")
    ELSE Returned("None")

\* faulty variant: PROVISIONING is missing from the in-progress statuses
poll_outcome_short_list(status) ==
    IF status = "SUCCEED" THEN Returned("True")
    ELSE IF status \in {"PENDING", "RUNNING"} THEN Returned("None")
    ELSE RaisedError("RuntimeError", <<"Deployment failed: ", status>>)

\* the if/elif/else of poll
poll_outcome(status) ==
    IF status = "SUCCEED" THEN Returned("True")
    ELSE IF status \in {"PENDING", "PROVISIONING", "RUNNING"} THEN Returned("None")
    ELSE RaisedError("RuntimeError", <<"Deployment failed: ", status>>)

\* faulty variant: the poll starts the job again before it asks for its status
poll_calls_restart(data, ok) ==
    <<ApiCall("start_deployment", <<data.AppId, data.BranchName, data.JobId>>, TRUE),
      ApiCall("get_job", <<data.AppId, data.BranchName, data.JobId>>, ok)>>

\* the calls one poll issues: amplify.get_job(appId, branchName, jobId)
poll_calls(data, ok) ==
    <<ApiCall("get_job", <<data.AppId, data.BranchName, data.JobId>>, ok)>>

\* the service's jobs after it served `cs`
RECURSIVE ServiceAfter(_, _)
ServiceAfter(js, cs) ==
    IF cs = <<>> THEN js
    ELSE LET c == Head(cs)
             after == IF c.api = "start_deployment" /\ c.ok /\ c.args[3] \in DOMAIN js
                      THEN [js EXCEPT ![c.args[3]].status = "PENDING"]
                      ELSE js
         IN ServiceAfter(after, Tail(cs))

InitDeploy ==
    /\ InitStore
    /\ pc = "idle"
    /\ records = <<>>
    /\ idx = 1
    /\ calls = <<>>
    /\ errors = {}
    /\ response = NoResponse
    /\ pre = profiles
    /\ InitNotifyIdle
    /\ InitDeployIdle
    /\ InitConcIdle

\* create_or_update is invoked: props = event.get("ResourceProperties", {}) and
\* the four props[...] reads
CreateOrUpdate ==
    /\ dpc = "idle"
    /\ \E request \in DeployRequests :
          /\ props' = request
          /\ dpc' = IF {"AppId", "BranchName", "SourceBucket", "SourceKey"} \subseteq DOMAIN request
                    THEN "get_object" ELSE "raised"
    /\ UNCHANGED <<zip_data, deployment, jobs, uploads, helperData, apiLog, pollResult, polls,
                   activityVars, notifyVars, concVars>>

\* s3.get_object(Bucket=source_bucket, Key=source_key); response["Body"].read()
GetObject ==
    /\ dpc = "get_object"
    /\ \E ok \in BOOLEAN :
          /\ apiLog' = Append(apiLog, ApiCall("get_object",
                                              <<props.SourceBucket, props.SourceKey>>, ok))
          /\ zip_data' = IF ok THEN S3Objects[props.SourceKey] ELSE zip_data
          /\ dpc' = AfterCall("get_object", ok)
    /\ UNCHANGED <<props, deployment, jobs, uploads, helperData, pollResult, polls,
                   activityVars, notifyVars, concVars>>

\* amplify.create_deployment(appId=app_id, branchName=branch_name)
CreateDeployment ==
    /\ dpc = "create_deployment"
    /\ \/ /\ apiLog' = Append(apiLog, ApiCall("create_deployment",
                                              <<props.AppId, props.BranchName>>, FALSE))
          /\ dpc' = AfterCall("create_deployment", FALSE)
          /\ UNCHANGED <<deployment, jobs>>
       \/ \E j \in JobIds \ DOMAIN jobs :
          /\ apiLog' = Append(apiLog, ApiCall("create_deployment",
                                              <<props.AppId, props.BranchName>>, TRUE))
          /\ jobs' = (j :> [appId |-> props.AppId, branchName |-> props.BranchName,
                            status |-> "CREATED"]) @@ jobs
          /\ deployment' = [zipUploadUrl |-> UploadUrl(j), jobId |-> j]
          /\ dpc' = AfterCall("create_deployment", TRUE)
    /\ UNCHANGED <<props, zip_data, uploads, helperData, pollResult, polls,
                   activityVars, notifyVars, concVars>>

\* urllib.request.urlopen(Request(upload_url, data=zip_data, method="PUT"))
Upload ==
    /\ dpc = "put"
    /\ \E ok \in BOOLEAN :
          /\ apiLog' = Append(apiLog, ApiCall("put", <<deployment.zipUploadUrl, zip_data>>, ok))
          /\ uploads' = IF ok THEN (deployment.zipUploadUrl :> zip_data) @@ uploads ELSE uploads
          /\ dpc' = AfterCall("put", ok)
    /\ UNCHANGED <<props, zip_data, deployment, jobs, helperData, pollResult, polls,
                   activityVars, notifyVars, concVars>>

\* amplify.start_deployment(appId=app_id, branchName=branch_name, jobId=job_id)
StartDeployment ==
    /\ dpc = "start_deployment"
    /\ \E ok \in BOOLEAN :
          LET call == ApiCall("start_deployment",
                              <<props.AppId, props.BranchName, deployment.jobId>>, ok) IN
          /\ apiLog' = Append(apiLog, call)
          /\ jobs' = ServiceAfter(jobs, <<call>>)
          /\ dpc' = AfterCall("start_deployment", ok)
    /\ UNCHANGED <<props, zip_data, deployment, uploads, helperData, pollResult, polls,
                   activityVars, notifyVars, concVars>>

\* the three helper.Data assignments that end create_or_update
EmitData ==
    /\ dpc = "emit"
    /\ helperData' = helper_data(deployment.jobId, props.AppId, props.BranchName)
    /\ dpc' = "created"
    /\ UNCHANGED <<props, zip_data, deployment, jobs, uploads, apiLog, pollResult, polls,
                   activityVars, notifyVars, concVars>>

\* the service moves a started job on
JobProgress ==
    /\ \E j \in DOMAIN jobs : \E st \in JobMoves(jobs[j].status) :
          jobs' = [jobs EXCEPT ![j].status = st]
    /\ UNCHANGED <<dpc, props, zip_data, deployment, uploads, helperData, apiLog, pollResult,
                   polls, activityVars, notifyVars, concVars>>

\* crhelper invokes poll with CrHelperData, again after every None
Poll ==
    /\ dpc = "created"
    /\ pollResult.kind = "none" \/ (pollResult.kind = "return" /\ pollResult.value = "None")
    /\ polls < MaxPolls
    /\ \E ok \in BOOLEAN :
          LET data == helperData
              issued == poll_calls(data, ok)
          IN /\ apiLog' = apiLog \o issued
             /\ jobs' = ServiceAfter(jobs, issued)
             /\ pollResult' = IF ok THEN poll_outcome(jobs[data.JobId].status)
                              ELSE RaisedError("ClientError", <<>>)
    /\ polls' = polls + 1
    /\ UNCHANGED <<dpc, props, zip_data, deployment, uploads, helperData,
                   activityVars, notifyVars, concVars>>

\* delete: logs and does nothing
Delete ==
    /\ dpc = "idle"
    /\ dpc' = "deleted"
    /\ UNCHANGED <<props, zip_data, deployment, jobs, uploads, helperData, apiLog, pollResult,
                   polls, activityVars, notifyVars, concVars>>

NextDeploy ==
    \/ CreateOrUpdate
    \/ GetObject
    \/ CreateDeployment
    \/ Upload
    \/ StartDeployment
    \/ EmitData
    \/ JobProgress
    \/ Poll
    \/ Delete

SpecDeploy == InitDeploy /\ [][NextDeploy]_vars

(***************************************************************************)
(* The poll loop without an end: crhelper goes on invoking poll for as     *)
(* long as it returns None.  The log and the counter record the first      *)
(* MaxPolls polls; the polls after them are made all the same.             *)
(***************************************************************************)
\* a poll after the MaxPolls recorded ones
PollBeyond ==
    /\ dpc = "created"
    /\ pollResult.kind = "return" /\ pollResult.value = "None"
    /\ polls = MaxPolls
    /\ \E ok \in BOOLEAN :
          LET data == helperData
              issued == poll_calls(data, ok)
          IN /\ jobs' = ServiceAfter(jobs, issued)
             /\ pollResult' = IF ok THEN poll_outcome(jobs[data.JobId].status)
                              ELSE RaisedError("ClientError", <<>>)
    /\ UNCHANGED <<dpc, props, zip_data, deployment, uploads, helperData, apiLog, polls,
                   activityVars, notifyVars, concVars>>

\* a poll whose amplify.get_job call is answered
PollAnswered == (Poll \/ PollBeyond) /\ pollResult'.value # "ClientError"

NextPollLoop == NextDeploy \/ PollBeyond

\* the platform keeps invoking poll after every None, and the service moves
\* every started job on until it is finished
SpecPollLoop ==
    /\ InitDeploy
    /\ [][NextPollLoop]_vars
    /\ WF_vars(PollAnswered)
    /\ WF_vars(JobProgress)

(***************************************************************************)
(* Activity aggregator, several invocations at once.  The platform may run *)
(* lambda_handler for several batches at the same time; the invocations    *)
(* share the profile table and nothing else.  Each update_item call is one *)
(* atomic step at the store; the timestamp of a SET is read from the clock *)
(* when the call's arguments are built, before the call reaches the store. *)
(***************************************************************************)
\* a comment and a reaction of the same user
ConcRecords ==
    { StreamRecord("INSERT", StreamArn(t), [userId |-> [S |-> "u2"], senderId |-> [S |-> "u1"]]) :
        t \in {TblComments, TblReactions} }

ConcBatches == SeqsUpTo(ConcRecords, MaxBatch)

InitConcurrent ==
    /\ InitStore
    /\ pc = "idle"
    /\ records = <<>>
    /\ idx = 1
    /\ calls = <<>>
    /\ errors = {}
    /\ response = NoResponse
    /\ pre = profiles
    /\ InitNotifyIdle
    /\ InitDeployIdle
    /\ InitConcIdle

\* the update_item calls the record invocation w stands at is due
PendingOps(w) == HandleMemo[invocations[w].records[invocations[w].idx]].ops

AtRecord(w) ==
    /\ invocations[w].pc = "running"
    /\ invocations[w].idx <= Len(invocations[w].records)

\* the platform invokes lambda_handler with a batch, whatever else is running
ConcInvoke(w) ==
    /\ invocations[w].pc = "idle"
    /\ \E batch \in ConcBatches :
          invocations' = [invocations EXCEPT ![w] = [pc |-> "running", records |-> batch,
                                                     idx |-> 1, op |-> 1, stamp |-> NoStamp]]
    /\ overlapped' = (overlapped \/ \E v \in Workers \ {w} : invocations[v].pc = "running")
    /\ UNCHANGED <<storeFailed, activityVars, notifyVars, deployVars>>

\* ':now': datetime.utcnow().isoformat() + 'Z' is evaluated
ConcReadClock(w) ==
    /\ AtRecord(w)
    /\ PendingOps(w)[invocations[w].op].op = "SET"
    /\ invocations[w].stamp = NoStamp
    /\ invocations' = [invocations EXCEPT ![w].stamp = now]
    /\ UNCHANGED <<overlapped, storeFailed, activityVars, notifyVars, deployVars>>

\* table.update_item(...) reaches the store, or fails (the error is printed
\* and swallowed); after the record's last call the for loop moves on
ConcUpdateItem(w) ==
    /\ AtRecord(w)
    /\ LET call == PendingOps(w)[invocations[w].op] IN
       /\ call.op = "ADD" \/ invocations[w].stamp # NoStamp
       /\ \E ok \in BOOLEAN :
             /\ profiles' = IF call.op = "ADD"
                            THEN increment_comment_count(profiles, call.key, ok)
                            ELSE update_last_active(profiles, call.key, ok,
                                                    invocations[w].stamp)
             /\ storeFailed' = (storeFailed \/ ~ok)
    /\ invocations' = IF invocations[w].op < Len(PendingOps(w))
                      THEN [invocations EXCEPT ![w].op = @ + 1, ![w].stamp = NoStamp]
                      ELSE [invocations EXCEPT ![w].idx = @ + 1, ![w].op = 1,
                                               ![w].stamp = NoStamp]
    /\ UNCHANGED <<overlapped, now, pc, records, idx, calls, errors, response, pre,
                   notifyVars, deployVars>>

\* return {'statusCode': 200, 'body': 'Activity stats updated'}
ConcReturn(w) ==
    /\ invocations[w].pc = "running"
    /\ invocations[w].idx > Len(invocations[w].records)
    /\ invocations' = [invocations EXCEPT ![w].pc = "done"]
    /\ UNCHANGED <<overlapped, storeFailed, activityVars, notifyVars, deployVars>>

NextConcurrent ==
    \/ \E w \in Workers : ConcInvoke(w)
    \/ \E w \in Workers : ConcReadClock(w)
    \/ \E w \in Workers : ConcUpdateItem(w)
    \/ \E w \in Workers : ConcReturn(w)
    \/ Tick

SpecConcurrent == InitConcurrent /\ [][NextConcurrent]_vars

(***************************************************************************)
(* What the claims speak of, stated from their words.                      *)
(***************************************************************************)
\* table names holding 'comment' and not 'reaction'
CommentOnlyTables ==
    { t \in TableNames : Contains(Lower(t), StrComment) /\ ~Contains(Lower(t), StrReaction) }

\* table names holding both 'comment' and 'reaction'
CommentReactionTables ==
    { t \in TableNames : Contains(Lower(t), StrComment) /\ Contains(Lower(t), StrReaction) }

\* table names holding 'message' that are not comment tables
MessageTables ==
    { t \in TableNames : Contains(Lower(t), StrMessage) } \ CommentOnlyTables

\* r is an INSERT record whose ARN names a table of `tables`
InsertFrom(r, tables) ==
    /\ Has(r, "eventName")
    /\ r.eventName = "INSERT"
    /\ ~TableMemo[r].raised
    /\ TableMemo[r].name \in tables

\* the record carries the string attribute k in its NewImage
Carries(r, k) ==
    /\ Has(r, "dynamodb")
    /\ Has(r.dynamodb, "NewImage")
    /\ Has(r.dynamodb.NewImage, k)
    /\ Has(r.dynamodb.NewImage[k], "S")

Attr(r, k) == r.dynamodb.NewImage[k].S

\* this step is the processing of records[idx]
Processing == pc = "running" /\ idx <= Len(records) /\ idx' # idx

\* the store calls issued by this step
NewCalls == SubSeq(calls', Len(calls) + 1, Len(calls'))

AllOk(cs) == \A i \in 1..Len(cs) : cs[i].ok

OpsOf(cs) == [i \in 1..Len(cs) |-> [op |-> cs[i].op, key |-> cs[i].key]]

\* everything of the table but user u's record is as before the step
OthersUntouched(u) == \A v \in Users \ {u} : profiles'[v] = profiles[v]

CountsUntouched == \A v \in Users : profiles'[v].commentCount = profiles[v].commentCount

\* a current-time value ending in 'Z'
StampedNow(u) ==
    /\ Len(profiles'[u].lastActive) = 3
    /\ profiles'[u].lastActive[2] = now
    /\ profiles'[u].lastActive[Len(profiles'[u].lastActive)] = "Z"

\* the calls the invocation issued for record i
CallsFor(i) == SelectSeq(calls, LAMBDA c : c.rec = i)

(***************************************************************************)
(* C1: processing a comment INSERT whose store calls succeed raises the    *)
(* acting user's commentCount by exactly 1, sets that user's lastActive to *)
(* the current time ending in 'Z', and changes no other user's record.     *)
(***************************************************************************)
C1_CommentInsert ==
    [][ ( /\ Processing
          /\ InsertFrom(records[idx], CommentOnlyTables)
          /\ Carries(records[idx], "userId")
          /\ AllOk(NewCalls) )
        => LET u == Attr(records[idx], "userId") IN
           /\ profiles'[u].commentCount = profiles[u].commentCount + 1
           /\ StampedNow(u)
           /\ OthersUntouched(u) ]_vars

\* a comment INSERT has been processed and both of its store calls succeeded
C1_Witness ==
    \E i \in 1..(idx - 1) :
        /\ pc = "running"
        /\ InsertFrom(records[i], CommentOnlyTables)
        /\ Carries(records[i], "userId")
        /\ Len(CallsFor(i)) = 2
        /\ AllOk(CallsFor(i))
        /\ profiles[Attr(records[i], "userId")].lastActive # NoTime

(***************************************************************************)
(* C2: processing a message INSERT never changes a commentCount; with a    *)
(* senderId it touches only the sender's record, by one SET of lastActive  *)
(* (the current time when the call succeeds); without a senderId, or with  *)
(* an empty one, it issues no store call, changes nothing, raises nothing. *)
(***************************************************************************)
C2_MessageInsert ==
    [][ ( /\ Processing
          /\ InsertFrom(records[idx], MessageTables) )
        => /\ CountsUntouched
           /\ IF Carries(records[idx], "senderId") /\ Attr(records[idx], "senderId") # ""
              THEN LET s == Attr(records[idx], "senderId") IN
                   /\ OpsOf(NewCalls) = <<[op |-> "SET", key |-> s]>>
                   /\ OthersUntouched(s)
                   /\ AllOk(NewCalls) => StampedNow(s)
                   /\ ~AllOk(NewCalls) => profiles' = profiles
              ELSE /\ NewCalls = <<>>
                   /\ profiles' = profiles
                   /\ errors' = errors ]_vars

\* a message INSERT with a sender and one without have both been processed
C2_Witness ==
    /\ pc = "done"
    /\ Len(records) = 2
    /\ InsertFrom(records[1], MessageTables)
    /\ Carries(records[1], "senderId")
    /\ Attr(records[1], "senderId") # ""
    /\ profiles[Attr(records[1], "senderId")].lastActive # NoTime
    /\ InsertFrom(records[2], MessageTables)
    /\ ~Carries(records[2], "senderId")
    /\ CallsFor(2) = <<>>

(***************************************************************************)
(* C3: an invocation whose batch holds no INSERT record issues no store    *)
(* call, leaves the profile table as it was, and returns the fixed         *)
(* acknowledgement {statusCode: 200, body: 'Activity stats updated'}.      *)
(***************************************************************************)
NoInsertIn(batch) ==
    \A i \in 1..Len(batch) : Has(batch[i], "eventName") /\ batch[i].eventName # "INSERT"

C3_NonInsertBatch ==
    (pc # "idle" /\ NoInsertIn(records))
    => /\ calls = <<>>
       /\ profiles = pre
       /\ errors = {}
       /\ pc = "done" => (response.statusCode = 200 /\ response.body = "Activity stats updated")

\* a batch of a MODIFY and a REMOVE record has been handled to the end
C3_Witness ==
    /\ pc = "done"
    /\ Len(records) = 2
    /\ NoInsertIn(records)
    /\ records[1].eventName = "MODIFY"
    /\ records[2].eventName = "REMOVE"
    /\ response.statusCode = 200

(***************************************************************************)
(* C4: whatever records fail (malformed, or a failing store call), the     *)
(* handler returns the fixed 200 acknowledgement, and every other INSERT   *)
(* record, before or after a failing one, has had its mutation applied:    *)
(* each well-formed INSERT record issued exactly its calls, each user's    *)
(* commentCount is the starting one plus the comment records of that user  *)
(* whose ADD succeeded, and lastActive is the stamp of the user's last     *)
(* successful SET.                                                         *)
(***************************************************************************)
\* the store calls a record is due, by the contract of section 4.1
DueCalls(r) ==
    IF InsertFrom(r, CommentOnlyTables) /\ Carries(r, "userId")
    THEN <<[op |-> "ADD", key |-> Attr(r, "userId")], [op |-> "SET", key |-> Attr(r, "userId")]>>
    ELSE IF InsertFrom(r, MessageTables) /\ Carries(r, "senderId") /\ Attr(r, "senderId") # ""
    THEN <<[op |-> "SET", key |-> Attr(r, "senderId")]>>
    ELSE IF InsertFrom(r, { t \in TableNames : Contains(Lower(t), StrReaction) } \ MessageTables)
            /\ Carries(r, "userId")
    THEN <<[op |-> "SET", key |-> Attr(r, "userId")]>>
    ELSE <<>>

DueMemo == [r \in ActivityRecords |-> DueCalls(r)]

OkSets(u) == { k \in 1..Len(calls) : calls[k].op = "SET" /\ calls[k].key = u /\ calls[k].ok }

OkAdds(u) == { k \in 1..Len(calls) : calls[k].op = "ADD" /\ calls[k].key = u /\ calls[k].ok }

Max(S) == CHOOSE x \in S : \A y \in S : y <= x

C4_PartialFailure ==
    pc = "done"
    => /\ response.statusCode = 200
       /\ response.body = "Activity stats updated"
       /\ \A i \in 1..Len(records) : OpsOf(CallsFor(i)) = DueMemo[records[i]]
       /\ \A u \in Users :
            /\ profiles[u].commentCount = pre[u].commentCount + Cardinality(OkAdds(u))
            /\ profiles[u].lastActive =
                 IF OkSets(u) = {} THEN pre[u].lastActive
                 ELSE <<"T", calls[Max(OkSets(u))].at, "Z">>

\* a malformed record came first, and the comment after it was counted
C4_Witness ==
    /\ pc = "done"
    /\ Len(records) = 2
    /\ 1 \in errors
    /\ InsertFrom(records[2], CommentOnlyTables)
    /\ Carries(records[2], "userId")
    /\ AllOk(CallsFor(2))
    /\ profiles[Attr(records[2], "userId")].commentCount
         = pre[Attr(records[2], "userId")].commentCount + 1

(***************************************************************************)
(* C5: an INSERT from a table whose name holds both 'comment' and          *)
(* 'reaction' is not handled as a comment: it issues one SET of the acting *)
(* user's lastActive and leaves every commentCount alone; an INSERT from a *)
(* table whose name holds 'comment' and not 'reaction' issues the comment  *)
(* branch's ADD and SET.                                                   *)
(***************************************************************************)
C5_ReactionNotComment ==
    [][ ( /\ Processing
          /\ Carries(records[idx], "userId") )
        => LET u == Attr(records[idx], "userId") IN
           /\ InsertFrom(records[idx], CommentReactionTables)
              => /\ OpsOf(NewCalls) = <<[op |-> "SET", key |-> u]>>
                 /\ CountsUntouched
                 /\ OthersUntouched(u)
                 /\ AllOk(NewCalls) => StampedNow(u)
           /\ InsertFrom(records[idx], CommentOnlyTables)
              => OpsOf(NewCalls) = <<[op |-> "ADD", key |-> u], [op |-> "SET", key |-> u]>> ]_vars

\* an INSERT from the comment-reactions table stamped its user and counted nothing
C5_Witness ==
    /\ pc = "done"
    /\ Len(records) = 1
    /\ InsertFrom(records[1], CommentReactionTables)
    /\ Carries(records[1], "userId")
    /\ AllOk(calls)
    /\ Len(calls) = 1
    /\ profiles[Attr(records[1], "userId")].lastActive # NoTime
    /\ \A v \in Users : profiles[v].commentCount = pre[v].commentCount

(***************************************************************************)
(* C6: the notification processor selects, for every source table, the     *)
(* branch the activity aggregator selects: every INSERT record it handled  *)
(* entered the branch (comment without reaction / message / reaction /     *)
(* none) of the aggregator's classification of the same table name.        *)
(***************************************************************************)
AggregatorBranchMemo == [t \in TableNames |-> activity_branch(t)]

C6_SameClassification ==
    \A k \in 1..Len(nlog) :
        LET r == nrecords[nlog[k].rec] IN
        ( /\ Has(r, "eventName")
          /\ r.eventName = "INSERT"
          /\ ~NotifyTableMemo[r].raised
          /\ Has(r, "dynamodb")
          /\ Has(r.dynamodb, "NewImage") )
        => nlog[k].branch = AggregatorBranchMemo[NotifyTableMemo[r].name]

(***************************************************************************)
(* C7: one poll whose status query answered returns True iff the status is *)
(* 'SUCCEED', returns None (no error) iff the status is one of 'PENDING',  *)
(* 'PROVISIONING', 'RUNNING', and for every other status raises a failure  *)
(* whose message carries that status string.                               *)
(***************************************************************************)
\* this step is one poll invocation
Polling == polls' = polls + 1

\* the status the service holds for the polled job when the poll asks
PolledStatus == jobs[helperData.JobId].status

C7_PollOutcome ==
    [][ (Polling /\ apiLog'[Len(apiLog')].api = "get_job" /\ apiLog'[Len(apiLog')].ok)
        => /\ (pollResult'.kind = "return" /\ pollResult'.value = "True")
                <=> PolledStatus = "SUCCEED"
           /\ (pollResult'.kind = "return" /\ pollResult'.value = "None")
                <=> PolledStatus \in {"PENDING", "PROVISIONING", "RUNNING"}
           /\ PolledStatus \notin {"SUCCEED", "PENDING", "PROVISIONING", "RUNNING"}
                => /\ pollResult'.kind = "raise"
                   /\ Len(pollResult'.message) > 0
                   /\ pollResult'.message[Len(pollResult'.message)] = PolledStatus ]_vars

\* a poll of a PROVISIONING job returned None, and a later poll of the job,
\* by then FAILED, raised with that status
C7_Witness ==
    /\ polls >= 2
    /\ Len(apiLog) >= 6
    /\ apiLog[Len(apiLog)].ok
    /\ pollResult.kind = "raise"
    /\ pollResult.message = <<"Deployment failed: ", "FAILED">>
    /\ jobs[helperData.JobId].status = "FAILED"

(***************************************************************************)
(* C8: a poll is a read-only single check: it issues exactly one call, the *)
(* job-status query for the carried AppId, BranchName and JobId, no        *)
(* create, upload or start call, and leaves the jobs, the uploads and the  *)
(* carried identifiers as they were.                                       *)
(***************************************************************************)
C8_PollReadOnly ==
    [][ Polling
        => /\ Len(apiLog') = Len(apiLog) + 1
           /\ SubSeq(apiLog', 1, Len(apiLog)) = apiLog
           /\ apiLog'[Len(apiLog')].api = "get_job"
           /\ apiLog'[Len(apiLog')].args
                = <<helperData.AppId, helperData.BranchName, helperData.JobId>>
           /\ jobs' = jobs
           /\ uploads' = uploads
           /\ helperData' = helperData
           /\ deployment' = deployment ]_vars

\* three polls in a row returned None while the job stayed RUNNING
C8_Witness ==
    /\ polls = 3
    /\ pollResult.kind = "return"
    /\ pollResult.value = "None"
    /\ Len(apiLog) = 7
    /\ \A i \in 5..7 : apiLog[i].api = "get_job" /\ apiLog[i].ok
    /\ jobs[helperData.JobId].status = "RUNNING"

(***************************************************************************)
(* C9: create/update issues its calls in the order fetch artifact, create  *)
(* deployment, upload to the URL create-deployment returned, start the job *)
(* create-deployment returned, each only after the one before succeeded;   *)
(* no job is started before its artifact is uploaded; and once it          *)
(* completes helper.Data holds exactly the request's AppId and BranchName  *)
(* and the JobId create-deployment returned.                               *)
(***************************************************************************)
CreateOrder == <<"get_object", "create_deployment", "put", "start_deployment">>

C9_CreateOrder ==
    /\ \A i \in 1..Len(apiLog) :
          /\ apiLog[i].api = IF i <= Len(CreateOrder) THEN CreateOrder[i] ELSE "get_job"
          /\ (i < Len(apiLog) /\ i <= Len(CreateOrder)) => apiLog[i].ok
    /\ \A j \in DOMAIN jobs :
          jobs[j].status # "CREATED"
          => /\ UploadUrl(j) \in DOMAIN uploads
             /\ uploads[UploadUrl(j)] = S3Objects[props.SourceKey]
    /\ Len(apiLog) >= 3 => apiLog[3].args = <<UploadUrl(deployment.jobId), S3Objects[props.SourceKey]>>
    /\ Len(apiLog) >= 4 => apiLog[4].args = <<props.AppId, props.BranchName, deployment.jobId>>
    /\ dpc = "created"
       => /\ DOMAIN helperData = {"AppId", "BranchName", "JobId"}
          /\ helperData.AppId = props.AppId
          /\ helperData.BranchName = props.BranchName
          /\ helperData.JobId = deployment.jobId
          /\ apiLog[2].ok
          /\ jobs[helperData.JobId].appId = props.AppId
          /\ jobs[helperData.JobId].branchName = props.BranchName
          /\ \A i \in 1..Len(CreateOrder) : apiLog[i].ok
    /\ dpc # "created" => helperData = NoData

\* create/update has completed for app2/dev with job j2 and before any poll
C9_Witness ==
    /\ dpc = "created"
    /\ polls = 0
    /\ Len(apiLog) = 4
    /\ helperData = [JobId |-> "j2", AppId |-> "app2", BranchName |-> "dev"]
    /\ jobs["j2"].status = "PENDING"
    /\ uploads[UploadUrl("j2")] = "bytesB"

(***************************************************************************)
(* C10: while the notification processor handles a batch, no email is      *)
(* sent (no ses.send_email call is issued) and the profile table is not    *)
(* written.                                                                *)
(***************************************************************************)
C10_NoEmailSent ==
    npc # "idle" => (sesCalls = <<>> /\ profiles = pre)

\* a batch of a reaction and a message INSERT was handled, each printed its line
C10_Witness ==
    /\ npc = "done"
    /\ Len(nlog) = 2
    /\ nlog[1].branch = "reaction" /\ ~nlog[1].raised /\ Len(nlog[1].lines) = 1
    /\ nlog[2].branch = "message" /\ ~nlog[2].raised /\ Len(nlog[2].lines) = 1
    /\ sesCalls = <<>>

(***************************************************************************)
(* C11: for every batch (INSERT, MODIFY and REMOVE records, INSERT records *)
(* lacking required fields included) the notification processor handles   *)
(* every record, in order, a record that raised not stopping the ones      *)
(* after it, and returns {statusCode: 200, body: 'Notifications            *)
(* processed'}.                                                            *)
(***************************************************************************)
C11_NotifyBatch ==
    npc = "done"
    => /\ nresponse.statusCode = 200
       /\ nresponse.body = "Notifications processed"
       /\ Len(nlog) = Len(nrecords)
       /\ \A k \in 1..Len(nlog) :
             /\ nlog[k].rec = k
             /\ nlog[k].raised <=> k \in nerrors

\* the first record, an INSERT lacking required fields, raised; the record
\* after it was handled and printed its line; the batch was acknowledged
C11_Witness ==
    /\ npc = "done"
    /\ Len(nrecords) = 2
    /\ Has(nrecords[1], "eventName")
    /\ nrecords[1].eventName = "INSERT"
    /\ nlog[1].raised
    /\ nlog[1].branch # "none"
    /\ nlog[2].rec = 2
    /\ ~nlog[2].raised
    /\ Len(nlog[2].lines) = 1
    /\ nresponse = NotifyAck

(***************************************************************************)
(* C12: processing an INSERT record classified as a reaction changes no    *)
(* commentCount; with a userId it issues exactly one SET of that user's    *)
(* lastActive (the current time when the call succeeds) and leaves every   *)
(* other field and every other user's record alone.                        *)
(***************************************************************************)
\* table names holding 'reaction' that are neither comment nor message tables
ReactionTables ==
    ({ t \in TableNames : Contains(Lower(t), StrReaction) } \ CommentOnlyTables)
        \ MessageTables

C12_ReactionInsert ==
    [][ ( /\ Processing
          /\ InsertFrom(records[idx], ReactionTables) )
        => /\ CountsUntouched
           /\ \A c \in 1..Len(NewCalls) : NewCalls[c].op = "SET"
           /\ Carries(records[idx], "userId")
              => LET u == Attr(records[idx], "userId") IN
                 /\ OpsOf(NewCalls) = <<[op |-> "SET", key |-> u]>>
                 /\ OthersUntouched(u)
                 /\ profiles' = [profiles EXCEPT ![u].lastActive = profiles'[u].lastActive]
                 /\ AllOk(NewCalls) => StampedNow(u)
                 /\ ~AllOk(NewCalls) => profiles' = profiles ]_vars

\* an INSERT from the plain reactions table stamped u2 at clock 1 and left
\* u2's count of 5 as it was
C12_Witness ==
    /\ pc = "done"
    /\ Len(records) = 1
    /\ InsertFrom(records[1], ReactionTables \ CommentReactionTables)
    /\ Carries(records[1], "userId")
    /\ Attr(records[1], "userId") = "u2"
    /\ OpsOf(calls) = <<[op |-> "SET", key |-> "u2"]>>
    /\ AllOk(calls)
    /\ profiles["u2"] = [commentCount |-> InitialCount["u2"], lastActive |-> UtcNowIsoZ(1)]

(***************************************************************************)
(* C13: in the activity aggregator and in the notification processor       *)
(* alike, an INSERT record from a table whose name holds none of           *)
(* 'comment', 'message', 'reaction' causes no action and no error: the     *)
(* aggregator issues no store call and leaves the table alone, the         *)
(* processor enters no notification branch and prints nothing, neither     *)
(* records an error, and each goes on to the next record of the batch.     *)
(***************************************************************************)
\* table names holding none of the three substrings
UnclassifiedTables ==
    { t \in TableNames : /\ ~Contains(Lower(t), StrComment)
                         /\ ~Contains(Lower(t), StrMessage)
                         /\ ~Contains(Lower(t), StrReaction) }

\* r is an INSERT record of the processor's input, carrying a NewImage, whose
\* ARN names a table of `tables`
NotifyInsertFrom(r, tables) ==
    /\ Has(r, "eventName")
    /\ r.eventName = "INSERT"
    /\ ~NotifyTableMemo[r].raised
    /\ NotifyTableMemo[r].name \in tables
    /\ Has(r, "dynamodb")
    /\ Has(r.dynamodb, "NewImage")

\* this step is the processor's handling of nrecords[nidx]
NotifyProcessing == npc = "running" /\ nidx <= Len(nrecords) /\ nidx' # nidx

C13_ClassificationMiss ==
    [][ /\ ( Processing /\ InsertFrom(records[idx], UnclassifiedTables) )
           => /\ NewCalls = <<>>
              /\ profiles' = profiles
              /\ errors' = errors
              /\ idx' = idx + 1
              /\ pc' = "running"
        /\ ( NotifyProcessing /\ NotifyInsertFrom(nrecords[nidx], UnclassifiedTables) )
           => /\ nlog'[Len(nlog')].branch = "none"
              /\ ~nlog'[Len(nlog')].raised
              /\ nlog'[Len(nlog')].lines = <<>>
              /\ sesCalls' = sesCalls
              /\ nerrors' = nerrors
              /\ profiles' = profiles
              /\ nidx' = nidx + 1
              /\ npc' = "running" ]_vars

\* the processor passed over an INSERT from the letters table without an
\* error and then handled the message INSERT after it
C13_Witness ==
    /\ npc = "done"
    /\ Len(nrecords) = 2
    /\ NotifyInsertFrom(nrecords[1], UnclassifiedTables)
    /\ nlog[1].branch = "none"
    /\ nerrors = {}
    /\ nlog[2].branch = "message"
    /\ Len(nlog[2].lines) = 1

(***************************************************************************)
(* C14: when a step of create/update fails (a missing property, fetch,     *)
(* create-deployment, upload or start-deployment), the error leaves the    *)
(* function: the failed call is the last call issued, so no later step     *)
(* runs (no start-deployment after a failed upload, no job started), and   *)
(* no identifiers are emitted and no poll follows.                         *)
(***************************************************************************)
C14_ErrorPropagates ==
    /\ \A i \in 1..Len(apiLog) :
          (i <= Len(CreateOrder) /\ ~apiLog[i].ok)
          => /\ i = Len(apiLog)
             /\ dpc = "raised"
    /\ dpc = "raised"
       => /\ helperData = NoData
          /\ polls = 0
          /\ pollResult.kind = "none"
          /\ Len(apiLog) <= Len(CreateOrder)
          /\ apiLog # <<>> => ~apiLog[Len(apiLog)].ok
          /\ apiLog = <<>> => DOMAIN props # {"AppId", "BranchName", "SourceBucket", "SourceKey"}
          /\ \A j \in DOMAIN jobs : jobs[j].status = "CREATED"

\* the upload failed after create-deployment had returned job j1: the error
\* left the function, the job was not started, nothing was emitted
C14_Witness ==
    /\ dpc = "raised"
    /\ Len(apiLog) = 3
    /\ apiLog[2].ok
    /\ apiLog[3].api = "put"
    /\ ~apiLog[3].ok
    /\ DOMAIN jobs = {"j1"}
    /\ jobs["j1"].status = "CREATED"
    /\ uploads = NoData
    /\ helperData = NoData

(***************************************************************************)
(* C15: starting from non-negative counts, through any invocations of the  *)
(* activity aggregator over any batches, one after the other or            *)
(* overlapping, with store calls that succeed or fail, every user's        *)
(* commentCount is non-negative and no step lowers it.                     *)
(***************************************************************************)
AllReturned == \A w \in Workers : invocations[w].pc = "done"

C15_CounterMonotone ==
    [][ \A u \in Users :
          /\ profiles[u].commentCount >= 0
          /\ profiles'[u].commentCount >= profiles[u].commentCount ]_vars

\* two invocations have returned, one of their store calls failed, and u2's
\* count stands two above its starting value
C15_Witness ==
    /\ AllReturned
    /\ storeFailed
    /\ profiles["u2"].commentCount = InitialCount["u2"] + 2
    /\ profiles["u1"].commentCount = InitialCount["u1"]

(***************************************************************************)
(* C16: given a non-decreasing clock, through any invocations of the       *)
(* activity aggregator, overlapping ones that write the same user          *)
(* included, no step of the store lowers a user's lastActive.              *)
(*                                                                         *)
(* As amended: the same, for invocations that do not overlap.              *)
(***************************************************************************)
\* stamps of the same format order as their clock values do; a record that
\* was never stamped is below every stamp
StampNotAfter(a, b) == a = NoTime \/ (b # NoTime /\ a[2] <= b[2])

LastActiveKept == \A u \in Users : StampNotAfter(profiles[u].lastActive, profiles'[u].lastActive)

C16_TimestampMonotone == [][ LastActiveKept ]_vars

C16_TimestampMonotoneSequential == [][ ~overlapped' => LastActiveKept ]_vars

\* two invocations ran one after the other, each wrote u2's lastActive, and
\* the value stored is the stamp of the later clock reading
C16_Witness ==
    /\ AllReturned
    /\ ~overlapped
    /\ ~storeFailed
    /\ \A w \in Workers : Len(invocations[w].records) >= 1
    /\ now = MaxClock
    /\ profiles["u2"].lastActive = UtcNowIsoZ(MaxClock)

(***************************************************************************)
(* C17: when invocations of the activity aggregator process comment        *)
(* INSERT records of the same user in any interleaving and every store     *)
(* call succeeds, no increment is lost: the user's commentCount is the     *)
(* starting value plus the number of comment INSERT records processed so   *)
(* far, a record delivered twice counting twice; at the end, plus the      *)
(* number of comment INSERT records of all the batches.                    *)
(***************************************************************************)
\* the comment INSERT records for user u whose ADD has been issued: <<w, i>>
\* is record i of invocation w's batch
CommentsCounted(u) ==
    { p \in Workers \X (1..MaxBatch) :
        LET inv == invocations[p[1]] IN
        /\ p[2] <= Len(inv.records)
        /\ InsertFrom(inv.records[p[2]], CommentOnlyTables)
        /\ Carries(inv.records[p[2]], "userId")
        /\ Attr(inv.records[p[2]], "userId") = u
        /\ (p[2] < inv.idx \/ (p[2] = inv.idx /\ inv.op > 1)) }

C17_NoLostIncrement ==
    ~storeFailed
    => \A u \in Users :
          profiles[u].commentCount = InitialCount[u] + Cardinality(CommentsCounted(u))

\* two overlapping invocations were each delivered the same comment INSERT
\* of u2, every store call succeeded, and the count rose by two
C17_Witness ==
    /\ AllReturned
    /\ overlapped
    /\ ~storeFailed
    /\ invocations["w1"].records = invocations["w2"].records
    /\ Len(invocations["w1"].records) = 1
    /\ InsertFrom(invocations["w1"].records[1], CommentOnlyTables)
    /\ profiles["u2"].commentCount = InitialCount["u2"] + 2

(***************************************************************************)
(* C18: if the job only moves forward until it is finished and the         *)
(* platform invokes poll again after every None, the poll results are      *)
(* None zero or more times and then, eventually, exactly one final         *)
(* outcome (True, or a raised failure) after which no poll is made; and no *)
(* poll returns None for a job whose status is already final.              *)
(***************************************************************************)
\* the statuses from which the service moves a job no further
FinalStatuses == {"SUCCEED", "FAILED", "CANCELLED"}

PollContinues(r) == r.kind = "return" /\ r.value = "None"

PollEnded(r) == r.kind = "raise" \/ (r.kind = "return" /\ r.value = "True")

\* this step is a poll, one of the counted ones or a later one
PollStep == dpc = "created" /\ (polls' # polls \/ pollResult' # pollResult)

C18_PollLoop ==
    /\ [][ (PollStep /\ PolledStatus \in FinalStatuses) => ~PollContinues(pollResult') ]_vars
    /\ [][ PollEnded(pollResult) => (pollResult' = pollResult /\ polls' = polls) ]_vars
    /\ [][ PollStep => (pollResult.kind = "none" \/ PollContinues(pollResult)) ]_vars
    /\ (dpc = "created") ~> PollEnded(pollResult)

\* two polls returned None and the third, the job having succeeded, True
C18_Witness ==
    /\ dpc = "created"
    /\ polls = 3
    /\ \A i \in 5..7 : apiLog[i].api = "get_job" /\ apiLog[i].ok
    /\ pollResult = Returned("True")
    /\ jobs[helperData.JobId].status = "SUCCEED"

=============================================================================
